---------------------------- MODULE Spec2Model ----------------------------
(***************************************************************************)
(* Model of Colony_Report_Breakdown.py: main() reads a colony report into  *)
(* a dataframe, turns the Comment column into text, and                    *)
(* transfer_and_tamoxifen() keeps the rows whose comment contains one of   *)
(* the trigger texts (case-insensitively) and prints them.                 *)
(*                                                                         *)
(* Text is a sequence of one-character strings, so that containment and    *)
(* letter case are computed, not assumed.                                  *)
(***************************************************************************)
EXTENDS Integers, Sequences, FiniteSets, TLC

VARIABLES
    source,       \* the spreadsheet file: its column names and its rows
    rules,        \* the (name, trigger) pairs the filter is run with
    df,           \* main's dataframe
    transfer_df,  \* the filtered dataframe of transfer_and_tamoxifen
    stdout,       \* what has been printed
    error,        \* the exception that ended the run, or "none"
    pc            \* position of the run

colony_vars == <<source, rules, df, transfer_df, stdout, error, pc>>

\* The imaging scripts: one call of create_surface_channels_then_analyze.
VARIABLES
    script,                    \* which of the two scripts is called
    xpc,                       \* position in the function
    host,                      \* the imaging application: what it offers, and
                               \* what the call has done to it
    vSizeC,                    \* channel count read from the dataset
    ui_values,                 \* the values read back from the dialog
    loop_c,                    \* the running loop's counter
    next_channel_index,
    primary_masked_indices,
    secondary_masked_indices,
    checks,                    \* history: the guards passed, in order
    masks_created,             \* history: masked channels actually created
    ret,                       \* the function's return value
    xt_out                     \* what the function has printed

xt_vars ==
    <<script, xpc, host, vSizeC, ui_values, loop_c, next_channel_index,
      primary_masked_indices, secondary_masked_indices, checks, masks_created,
      ret, xt_out>>

vars == <<colony_vars, xt_vars>>

(***************************************************************************)
(* Bounds of the model.                                                    *)
(***************************************************************************)
MaxRows == 2
MaxChannels == 2

(***************************************************************************)
(* Characters and letter case.                                             *)
(***************************************************************************)
LowerLetters ==
    <<"a","b","c","d","e","f","g","h","i","j","k","l","m",
      "n","o","p","q","r","s","t","u","v","w","x","y","z">>

UpperLetters ==
    <<"A","B","C","D","E","F","G","H","I","J","K","L","M",
      "N","O","P","Q","R","S","T","U","V","W","X","Y","Z">>

LetterIndex(alphabet, c) == CHOOSE i \in DOMAIN alphabet : alphabet[i] = c

IsIn(alphabet, c) == \E i \in DOMAIN alphabet : alphabet[i] = c

\* The characters texts are written in.
Characters ==
    { LowerLetters[i] : i \in DOMAIN LowerLetters }
        \cup { UpperLetters[i] : i \in DOMAIN UpperLetters }
        \cup { "_", " ", ";" }

\* The lower-case form of each character, tabulated once.
lower_of ==
    [c \in Characters |->
        IF IsIn(UpperLetters, c)
        THEN LowerLetters[LetterIndex(UpperLetters, c)] ELSE c]

to_lower(c) == lower_of[c]

to_upper(c) ==
    IF IsIn(LowerLetters, c) THEN UpperLetters[LetterIndex(LowerLetters, c)] ELSE c

\* Variant: no case folding at all.
casefold_none(s) == s

casefold(s) == [i \in DOMAIN s |-> to_lower(s[i])]

Upper(s) == [i \in DOMAIN s |-> to_upper(s[i])]

\* Every word capitalised: the first letter and each letter after a non-letter.
Title(s) ==
    [i \in DOMAIN s |->
        IF i = 1 \/ ~(IsIn(LowerLetters, s[i-1]) \/ IsIn(UpperLetters, s[i-1]))
        THEN to_upper(s[i]) ELSE s[i]]

(***************************************************************************)
(* The literal texts of the program.                                       *)
(***************************************************************************)
SEND_TO == <<"_","_","s","e","n","d"," ","t","o","_","_">>

PUT_ON_TAM == <<"_","_","p","u","t"," ","o","n"," ","t","a","m","_","_">>

\* str(float('nan')): what astype(str) writes for an empty cell of an object column
NAN_TEXT == <<"n","a","n">>

\* The missing value of a dataframe cell (NaN / None); not a text.
NaN == <<"<missing>">>

isna(c) == c = NaN

(***************************************************************************)
(* The inputs: spreadsheets of at most MaxRows rows.                       *)
(***************************************************************************)
WEANED == <<"W","e","a","n","e","d",";"," ">>

BREEDING == <<" ","b","r","e","e","d","i","n","g",";"," ">>

NEXT_WEEK == <<" ","n","e","x","t"," ","w","e","e","k">>

BANANA == <<"b","a","n","a","n","a">>

\* "Weaned; __SEND TO__ breeding; __put on tam__ next week"
BothTriggersComment ==
    WEANED \o Upper(SEND_TO) \o BREEDING \o PUT_ON_TAM \o NEXT_WEEK

EmbeddedComment == <<"x">> \o SEND_TO \o <<"y">>

\* "send to": the trigger without its underscores
BareWordsComment == SubSeq(SEND_TO, 3, 9)

CommentTexts ==
    { <<>>, SEND_TO, Upper(SEND_TO), Title(PUT_ON_TAM), BothTriggersComment,
      EmbeddedComment, BareWordsComment, BANANA }

\* A Comment cell of the spreadsheet: a text, or empty (read as NaN).
CommentCells == CommentTexts \cup {NaN}

AnimalIDs == {"M1", "M2"}

Columns == { {"AnimalID", "Comment"}, {"AnimalID"} }

SheetRows(cols) ==
    IF "Comment" \in cols
    THEN [AnimalID : AnimalIDs, Comment : CommentCells]
    ELSE [AnimalID : AnimalIDs]

Sheets ==
    UNION { { [columns |-> cols, rows |-> rs] :
                rs \in UNION { [1..n -> SheetRows(cols)] : n \in 0..MaxRows } } :
            cols \in Columns }

(***************************************************************************)
(* The rule sets.  The program runs default_rules; the others are the      *)
(* same filter with other (name, trigger) pairs.                           *)
(***************************************************************************)
default_rules ==
    << [name |-> "transfer",  trigger |-> SEND_TO],
       [name |-> "tamoxifen", trigger |-> PUT_ON_TAM] >>

Reverse(s) == [i \in DOMAIN s |-> s[Len(s) + 1 - i]]

RuleSets ==
    { default_rules,
      Reverse(default_rules),
      << [name |-> "nan", trigger |-> NAN_TEXT] >>,
      << [name |-> "transfer", trigger |-> Upper(SEND_TO)],
         [name |-> "tam", trigger |-> SubSeq(PUT_ON_TAM, 10, 12)] >> }

(***************************************************************************)
(* The dataframe operations the program uses.                              *)
(***************************************************************************)
\* pd.read_excel: the rows of the sheet under a RangeIndex 0, 1, ...
read_excel(sheet) ==
    [i \in DOMAIN sheet.rows |-> ("index" :> (i - 1)) @@ sheet.rows[i]]

\* Series.astype(str) on one cell.  A text stays as it is.  A missing value
\* becomes the text "nan" where the column is an object column, and stays
\* missing where the installed pandas casts to its string dtype: both are
\* outcomes of line 9, and keeps_na says which one the build produces.
astype_str(cell, keeps_na) ==
    IF isna(cell) THEN (IF keeps_na THEN NaN ELSE NAN_TEXT) ELSE cell

\* re.search of a literal pattern under re.IGNORECASE: the leftmost position
\* from k on at which the pattern matches letter for letter, case folded.
RECURSIVE search_from(_, _, _)
search_from(pat, text, k) ==
    IF k + Len(pat) - 1 > Len(text) THEN FALSE
    ELSE IF \A j \in 1..Len(pat) : text[k + j - 1] = pat[j] THEN TRUE
    ELSE search_from(pat, text, k + 1)

\* Variant: case=False left out, so the search is case sensitive.
str_contains_case_sensitive(cell, pat, na) ==
    IF isna(cell) THEN na ELSE search_from(pat, cell, 1)

\* Variant: a missing cell always counts as a match (na=True).
str_contains_na_matches(cell, pat, na) ==
    IF isna(cell) THEN TRUE ELSE search_from(casefold(pat), casefold(cell), 1)

\* Variant: the pattern is searched as a whole word (between \b anchors).
IsWordChar(c) == IsIn(LowerLetters, c) \/ IsIn(UpperLetters, c) \/ c = "_"

RECURSIVE search_word_from(_, _, _)
search_word_from(pat, text, k) ==
    IF k + Len(pat) - 1 > Len(text) THEN FALSE
    ELSE IF /\ SubSeq(text, k, k + Len(pat) - 1) = pat
            /\ (k = 1 \/ ~IsWordChar(text[k - 1]))
            /\ (k + Len(pat) > Len(text) \/ ~IsWordChar(text[k + Len(pat)]))
         THEN TRUE
    ELSE search_word_from(pat, text, k + 1)

str_contains_whole_word(cell, pat, na) ==
    IF isna(cell) THEN na ELSE search_word_from(casefold(pat), casefold(cell), 1)

\* Series.str.contains(pat, case=False, na=na) on one cell
str_contains(cell, pat, na) ==
    IF isna(cell) THEN na ELSE search_from(casefold(pat), casefold(cell), 1)

\* One operand of the | of line 17: the mask of one trigger on one row.
rule_mask(row, rule) == str_contains(row.Comment, rule.trigger, FALSE)

\* Variant: only the first trigger is tested, the second operand is lost.
row_mask_first_rule_only(row, rs) == rs # <<>> /\ rule_mask(row, rs[1])

\* Variant: a later assignment of the mask overwrites the earlier one.
row_mask_last_rule_only(row, rs) == rs # <<>> /\ rule_mask(row, rs[Len(rs)])

\* The whole mask of line 17 on one row: the | of the triggers' masks.
row_mask(row, rs) == \E k \in DOMAIN rs : rule_mask(row, rs[k])

\* Variant: the selected rows come out newest first.
classify_reversed(frame, rs) ==
    Reverse(SelectSeq(frame, LAMBDA row : row_mask(row, rs)))

\* Variant: one selection per trigger, concatenated, instead of one | mask.
RECURSIVE classify_concat(_, _)
classify_concat(frame, rs) ==
    IF rs = <<>> THEN <<>>
    ELSE SelectSeq(frame, LAMBDA row : rule_mask(row, rs[1]))
            \o classify_concat(frame, Tail(rs))

\* Variant: the first row is taken for a header and skipped.
classify_skip_first(frame, rs) ==
    IF frame = <<>> THEN <<>>
    ELSE SelectSeq(Tail(frame), LAMBDA row : row_mask(row, rs))

\* Variant: the mask is applied to the Comment column, not to the frame.
classify_comment_only(frame, rs) ==
    LET kept == SelectSeq(frame, LAMBDA row : row_mask(row, rs))
    IN  [j \in DOMAIN kept |->
            [index |-> kept[j].index, Comment |-> kept[j].Comment]]

\* Variant: drop_duplicates() after the selection: of rows with the same
\* cells only the first is kept.
classify_drop_duplicates(frame, rs) ==
    SelectSeq(frame,
              LAMBDA row :
                  /\ row_mask(row, rs)
                  /\ ~\E j \in DOMAIN frame :
                        /\ frame[j].index < row.index
                        /\ frame[j].AnimalID = row.AnimalID
                        /\ frame[j].Comment = row.Comment)

\* Variant: head(1) after the selection: only the first selected row.
classify_first_match_only(frame, rs) ==
    LET kept == SelectSeq(frame, LAMBDA row : row_mask(row, rs))
    IN  IF kept = <<>> THEN <<>> ELSE <<kept[1]>>

\* df[mask]: the rows whose mask is True, in the order of df, index kept.
classify(frame, rs) == SelectSeq(frame, LAMBDA row : row_mask(row, rs))

\* The names of the rules whose mask is True on the row.
matched_rule_names(row, rs) ==
    { rs[k].name : k \in { j \in DOMAIN rs : rule_mask(row, rs[j]) } }

(***************************************************************************)
(* The run: main() and transfer_and_tamoxifen(df), statement by statement. *)
(* pc names the statement that runs next.                                  *)
(***************************************************************************)
\* No imaging call is in progress.
XTIdle ==
    /\ script = "none"
    /\ xpc = "idle"
    /\ host = [app |-> FALSE, dataset |-> FALSE, sizeC |-> 0, confirm |-> FALSE,
               detections |-> 0, scene |-> <<>>, channel_writes |-> <<>>,
               exported |-> FALSE]
    /\ vSizeC = 0
    /\ ui_values = <<>>
    /\ loop_c = 0
    /\ next_channel_index = 0
    /\ primary_masked_indices = <<>>
    /\ secondary_masked_indices = <<>>
    /\ checks = <<>>
    /\ masks_created = 0
    /\ ret = "running"
    /\ xt_out = <<>>

Init ==
    /\ XTIdle
    /\ source \in Sheets
    /\ rules \in RuleSets
    /\ df = <<>>
    /\ transfer_df = <<>>
    /\ stdout = <<>>
    /\ error = "none"
    /\ pc = "read_excel"

\* line 8: df = pd.read_excel(...)
ReadExcel ==
    /\ pc = "read_excel"
    /\ df' = read_excel(source)
    /\ pc' = "astype"
    /\ UNCHANGED <<source, rules, transfer_df, stdout, error>>
    /\ UNCHANGED xt_vars

\* Variant: the conversion raises on a dataframe without rows.
AstypeStrFailsOnEmpty ==
    /\ pc = "astype"
    /\ "Comment" \in source.columns
    /\ IF df = <<>>
       THEN /\ error' = "ValueError"
            /\ pc' = "failed"
            /\ df' = df
       ELSE /\ \E keeps_na \in BOOLEAN :
                  df' = [i \in DOMAIN df |->
                            [df[i] EXCEPT
                                !.Comment = astype_str(df[i].Comment, keeps_na)]]
            /\ pc' = "filter"
            /\ error' = error
    /\ UNCHANGED <<source, rules, transfer_df, stdout>>
    /\ UNCHANGED xt_vars

\* line 9: df['Comment'] = df['Comment'].astype(str)
AstypeStr ==
    /\ pc = "astype"
    /\ "Comment" \in source.columns
    /\ \E keeps_na \in BOOLEAN :
          df' = [i \in DOMAIN df |->
                    [df[i] EXCEPT !.Comment = astype_str(df[i].Comment, keeps_na)]]
    /\ pc' = "filter"
    /\ UNCHANGED <<source, rules, transfer_df, stdout, error>>
    /\ UNCHANGED xt_vars

\* Variant: a sheet without the column gets an empty one and the run goes on.
AstypeStrColumnFilledIn ==
    /\ pc = "astype"
    /\ "Comment" \notin source.columns
    /\ df' = [i \in DOMAIN df |-> ("Comment" :> <<>>) @@ df[i]]
    /\ pc' = "filter"
    /\ UNCHANGED <<source, rules, transfer_df, stdout, error>>
    /\ UNCHANGED xt_vars

\* Variant: the dataframe is printed before the column is looked up.
AstypeStrKeyErrorAfterPrint ==
    /\ pc = "astype"
    /\ "Comment" \notin source.columns
    /\ stdout' = Append(stdout, df)
    /\ error' = "KeyError"
    /\ pc' = "failed"
    /\ UNCHANGED <<source, rules, df, transfer_df>>
    /\ UNCHANGED xt_vars

\* line 9 on a sheet without the column: df['Comment'] raises KeyError,
\* which nothing catches.
AstypeStrKeyError ==
    /\ pc = "astype"
    /\ "Comment" \notin source.columns
    /\ error' = "KeyError"
    /\ pc' = "failed"
    /\ UNCHANGED <<source, rules, df, transfer_df, stdout>>
    /\ UNCHANGED xt_vars

\* Variant: the filter is applied to the caller's dataframe in place.
FilterInPlace ==
    /\ pc = "filter"
    /\ transfer_df' = classify(df, rules)
    /\ df' = transfer_df'
    /\ pc' = "print"
    /\ UNCHANGED <<source, rules, stdout, error>>
    /\ UNCHANGED xt_vars

\* lines 11, 14-17: transfer_and_tamoxifen(df) builds transfer_df
Filter ==
    /\ pc = "filter"
    /\ transfer_df' = classify(df, rules)
    /\ pc' = "print"
    /\ UNCHANGED <<source, rules, df, stdout, error>>
    /\ UNCHANGED xt_vars

\* line 19: print(transfer_df)
PrintResult ==
    /\ pc = "print"
    /\ stdout' = Append(stdout, transfer_df)
    /\ pc' = "done"
    /\ UNCHANGED <<source, rules, df, transfer_df, error>>
    /\ UNCHANGED xt_vars

Next ==
    \/ ReadExcel
    \/ AstypeStr
    \/ AstypeStrKeyError
    \/ Filter
    \/ PrintResult

Spec == Init /\ [][Next]_vars

(***************************************************************************)
(* The imaging scripts.  create_surface_channels_then_analyze(aImarisId)   *)
(* of basic_xt_script_structure.py and of complex_4channel_ihc.py, as far  *)
(* as the function body reaches in each file.  What the application        *)
(* returns (a connection, a dataset, a detected surface, a masked channel, *)
(* the user's answer) is chosen freely; what the function does to the      *)
(* application is written into host.                                       *)
(***************************************************************************)
Scripts == {"basic", "complex"}

\* surface_configs of the complex script has one entry per surface.
NumSurfaces == 4

\* A call starts with the application in any offered state and untouched.
InitXT ==
    /\ script \in Scripts
    /\ xpc = "get_app"
    /\ host \in [app : BOOLEAN, dataset : BOOLEAN, sizeC : 1..MaxChannels,
                 confirm : BOOLEAN, detections : {0}, scene : {<<>>},
                 channel_writes : {<<>>}, exported : {FALSE}]
    /\ vSizeC = 0
    /\ ui_values = <<>>
    /\ loop_c = 0
    /\ next_channel_index = 0
    /\ primary_masked_indices = <<>>
    /\ secondary_masked_indices = <<>>
    /\ checks = <<>>
    /\ masks_created = 0
    /\ ret = "running"
    /\ xt_out = <<>>
    /\ source = [columns |-> {"AnimalID", "Comment"}, rows |-> <<>>]
    /\ rules = default_rules
    /\ df = <<>>
    /\ transfer_df = <<>>
    /\ stdout = <<>>
    /\ error = "none"
    /\ pc = "idle"

\* return <value>
Return(value) ==
    /\ ret' = value
    /\ xpc' = "returned"

\* lines 55-61: vImaris = GetApplication(aImarisId); None ends the call
XTGetApplication ==
    /\ xpc = "get_app"
    /\ IF host.app
       THEN /\ checks' = Append(checks, "connection")
            /\ xpc' = "get_dataset"
            /\ UNCHANGED <<ret, xt_out>>
       ELSE /\ xt_out' = Append(xt_out, "Could not connect to Imaris")
            /\ Return("None")
            /\ UNCHANGED checks
    /\ UNCHANGED <<script, host, vSizeC, ui_values, loop_c, next_channel_index,
                   primary_masked_indices, secondary_masked_indices,
                   masks_created>>
    /\ UNCHANGED colony_vars

\* lines 64-67: vDataSet = vImaris.GetDataSet(); None ends the call
XTGetDataSet ==
    /\ xpc = "get_dataset"
    /\ IF host.dataset
       THEN /\ checks' = Append(checks, "dataset")
            /\ xpc' = "build_dialog"
            /\ UNCHANGED <<ret, xt_out>>
       ELSE /\ xt_out' = Append(xt_out, "No data set loaded")
            /\ Return("None")
            /\ UNCHANGED checks
    /\ UNCHANGED <<script, host, vSizeC, ui_values, loop_c, next_channel_index,
                   primary_masked_indices, secondary_masked_indices,
                   masks_created>>
    /\ UNCHANGED colony_vars

\* lines 70-109 (basic), 70-143 (complex): the sizes are read, the channel
\* names collected and the dialog's widgets created; nothing of the scene
\* or the dataset is written.
XTBuildDialog ==
    /\ xpc = "build_dialog"
    /\ vSizeC' = host.sizeC
    /\ xt_out' = Append(xt_out, "Dataset dimensions")
    /\ xpc' = "show"
    /\ UNCHANGED <<script, host, ui_values, loop_c, next_channel_index,
                   primary_masked_indices, secondary_masked_indices, checks,
                   masks_created, ret>>
    /\ UNCHANGED colony_vars

\* What the user can have set in the dialog.
BasicValues ==
    [primary_channel_idx : 0..(vSizeC - 1), secondary_channel_idx : 0..(vSizeC - 1)]

\* Each surface of the complex script is disabled, or made from an original
\* or from a masked channel; surfaces 1 and 2 are always from an original.
ComplexValues ==
    { cfg \in [1..NumSurfaces -> {"disabled", "original", "masked"}] :
        cfg[1] # "masked" /\ cfg[2] # "masked" }

\* Variant: the answer of the dialog is not looked at.
XTShowDialogIgnoringCancel ==
    /\ xpc = "show"
    /\ LET vResult == host.confirm IN
          /\ checks' = Append(checks, "dialog")
          /\ \E values \in (IF script = "basic" THEN BasicValues ELSE ComplexValues) :
                ui_values' = values
          /\ xpc' = IF script = "basic" THEN "detect_primary" ELSE "configure"
          /\ UNCHANGED ret
    /\ UNCHANGED <<script, host, vSizeC, loop_c, next_channel_index,
                   primary_masked_indices, secondary_masked_indices,
                   masks_created, xt_out>>
    /\ UNCHANGED colony_vars

\* lines 112-124 (basic), 146-235 (complex): vResult = vUI.Show(); a
\* cancelled dialog ends the call, otherwise the values are read back.
XTShowDialog ==
    /\ xpc = "show"
    /\ LET vResult == host.confirm IN
          IF ~vResult
          THEN /\ Return("Canceled by user")
               /\ UNCHANGED <<checks, ui_values>>
          ELSE /\ checks' = Append(checks, "dialog")
               /\ \E values \in (IF script = "basic" THEN BasicValues
                                                      ELSE ComplexValues) :
                     ui_values' = values
               /\ xpc' = IF script = "basic" THEN "detect_primary" ELSE "configure"
               /\ UNCHANGED ret
    /\ UNCHANGED <<script, host, vSizeC, loop_c, next_channel_index,
                   primary_masked_indices, secondary_masked_indices,
                   masks_created, xt_out>>
    /\ UNCHANGED colony_vars

\* f"{channel_names[idx]}_Surface"
surface_name(idx) == <<"channel", idx, "_Surface">>

\* vFactory.DetectSurfaces(...): one more detection run by the application
Detected(h) == [h EXCEPT !.detections = @ + 1]

\* vSurpassScene.AddChild(surface, -1)
AddChild(h, name) == [h EXCEPT !.scene = Append(@, name)]

\* lines 127-147 of the basic script: the primary surface
BasicDetectPrimary ==
    /\ xpc = "detect_primary"
    /\ script = "basic"
    /\ \E found \in BOOLEAN :
          IF found
          THEN /\ host' = AddChild(Detected(host),
                                   surface_name(ui_values.primary_channel_idx))
               /\ xpc' = "detect_secondary"
               /\ UNCHANGED <<ret, xt_out>>
          ELSE /\ host' = Detected(host)
               /\ xt_out' = Append(xt_out, "Error creating primary surface")
               /\ Return("None")
    /\ UNCHANGED <<script, vSizeC, ui_values, loop_c, next_channel_index,
                   primary_masked_indices, secondary_masked_indices, checks,
                   masks_created>>
    /\ UNCHANGED colony_vars

\* lines 170-185 of the basic script: the secondary surface
BasicDetectSecondary ==
    /\ xpc = "detect_secondary"
    /\ \E found \in BOOLEAN :
          IF found
          THEN /\ host' = AddChild(Detected(host),
                                   surface_name(ui_values.secondary_channel_idx))
               /\ xpc' = "start_primary_masking"
               /\ UNCHANGED <<ret, xt_out>>
          ELSE /\ host' = Detected(host)
               /\ xt_out' = Append(xt_out, "Error creating secondary surface")
               /\ Return("None")
    /\ UNCHANGED <<script, vSizeC, ui_values, loop_c, next_channel_index,
                   primary_masked_indices, secondary_masked_indices, checks,
                   masks_created>>
    /\ UNCHANGED colony_vars

\* lines 205-214: next_channel_index = vSizeC, primary_masked_indices = []
BasicStartPrimaryMasking ==
    /\ xpc = "start_primary_masking"
    /\ next_channel_index' = vSizeC
    /\ primary_masked_indices' = <<>>
    /\ loop_c' = 0
    /\ xpc' = "mask_primary"
    /\ UNCHANGED <<script, host, vSizeC, ui_values, secondary_masked_indices,
                   checks, masks_created, ret, xt_out>>
    /\ UNCHANGED colony_vars

\* vDataSet.SetChannelName(index, name); vDataSet.SetChannelColorRGBA(index, ...)
NameAndColour(h, index, c) ==
    [h EXCEPT !.channel_writes =
        @ \o << [op |-> "SetChannelName", index |-> index, of |-> c],
                [op |-> "SetChannelColorRGBA", index |-> index, of |-> c] >>]

\* Variant: the index is advanced on every pass of the loop, masked or not.
next_index_after_always(index, created) == index + 1

\* lines 218-224, 239-245: next_channel_index += 1 inside the if
next_index_after(index, created) == IF created THEN index + 1 ELSE index

\* lines 214-224: one pass of the loop over the channels, primary surface
BasicMaskPrimary ==
    /\ xpc = "mask_primary"
    /\ loop_c < vSizeC
    /\ \E created \in BOOLEAN :
          /\ IF created
             THEN /\ host' = NameAndColour(host, next_channel_index, loop_c)
                  /\ primary_masked_indices' =
                        Append(primary_masked_indices, next_channel_index)
                  /\ masks_created' = masks_created + 1
             ELSE UNCHANGED <<host, primary_masked_indices, masks_created>>
          /\ next_channel_index' = next_index_after(next_channel_index, created)
    /\ loop_c' = loop_c + 1
    /\ UNCHANGED <<script, xpc, vSizeC, ui_values, secondary_masked_indices,
                   checks, ret, xt_out>>
    /\ UNCHANGED colony_vars

\* lines 227-235: the first loop is over; secondary_masked_indices = []
BasicStartSecondaryMasking ==
    /\ xpc = "mask_primary"
    /\ loop_c = vSizeC
    /\ secondary_masked_indices' = <<>>
    /\ loop_c' = 0
    /\ xpc' = "mask_secondary"
    /\ UNCHANGED <<script, host, vSizeC, ui_values, next_channel_index,
                   primary_masked_indices, checks, masks_created, ret, xt_out>>
    /\ UNCHANGED colony_vars

\* lines 235-245: one pass of the loop over the channels, secondary surface
BasicMaskSecondary ==
    /\ xpc = "mask_secondary"
    /\ loop_c < vSizeC
    /\ \E created \in BOOLEAN :
          /\ IF created
             THEN /\ host' = NameAndColour(host, next_channel_index, loop_c)
                  /\ secondary_masked_indices' =
                        Append(secondary_masked_indices, next_channel_index)
                  /\ masks_created' = masks_created + 1
             ELSE UNCHANGED <<host, secondary_masked_indices, masks_created>>
          /\ next_channel_index' = next_index_after(next_channel_index, created)
    /\ loop_c' = loop_c + 1
    /\ UNCHANGED <<script, xpc, vSizeC, ui_values, primary_masked_indices,
                   checks, ret, xt_out>>
    /\ UNCHANGED colony_vars

\* lines 248-262: the surface of the first channel masked by the secondary
\* surface; the function body ends here, so the call returns None.
BasicDetectMaskedPrimary ==
    /\ xpc = "mask_secondary"
    /\ loop_c = vSizeC
    /\ IF Len(secondary_masked_indices) >= 1
       THEN \E found \in BOOLEAN :
               host' = IF found
                       THEN AddChild(Detected(host),
                                     <<"channel", ui_values.primary_channel_idx, "_in_",
                                       surface_name(ui_values.secondary_channel_idx)>>)
                       ELSE Detected(host)
       ELSE UNCHANGED host
    /\ Return("None")
    /\ UNCHANGED <<script, vSizeC, ui_values, loop_c, next_channel_index,
                   primary_masked_indices, secondary_masked_indices, checks,
                   masks_created, xt_out>>
    /\ UNCHANGED colony_vars

\* lines 240-246 of the complex script: factory, scene, empty collections
ComplexConfigure ==
    /\ xpc = "configure"
    /\ next_channel_index' = vSizeC
    /\ loop_c' = 0
    /\ xpc' = "first_pass"
    /\ UNCHANGED <<script, host, vSizeC, ui_values, primary_masked_indices,
                   secondary_masked_indices, checks, masks_created, ret, xt_out>>
    /\ UNCHANGED colony_vars

\* lines 249-271 of the complex script: one pass of the first loop
ComplexFirstPass ==
    /\ xpc = "first_pass"
    /\ loop_c < NumSurfaces
    /\ IF ui_values[loop_c + 1] = "original"
       THEN \E found \in BOOLEAN :
               IF found
               THEN /\ host' = AddChild(Detected(host), surface_name(loop_c))
                    /\ UNCHANGED xt_out
               ELSE /\ host' = Detected(host)
                    /\ xt_out' = Append(xt_out, "Error creating Surface")
       ELSE UNCHANGED <<host, xt_out>>
    /\ loop_c' = loop_c + 1
    /\ UNCHANGED <<script, xpc, vSizeC, ui_values, next_channel_index,
                   primary_masked_indices, secondary_masked_indices, checks,
                   masks_created, ret>>
    /\ UNCHANGED colony_vars

\* the loop is over and with it the function body: the call returns None
ComplexReturn ==
    /\ xpc = "first_pass"
    /\ loop_c = NumSurfaces
    /\ Return("None")
    /\ UNCHANGED <<script, host, vSizeC, ui_values, loop_c, next_channel_index,
                   primary_masked_indices, secondary_masked_indices, checks,
                   masks_created, xt_out>>
    /\ UNCHANGED colony_vars

NextXT ==
    \/ XTGetApplication
    \/ XTGetDataSet
    \/ XTBuildDialog
    \/ XTShowDialog
    \/ BasicDetectPrimary
    \/ BasicDetectSecondary
    \/ BasicStartPrimaryMasking
    \/ BasicMaskPrimary
    \/ BasicStartSecondaryMasking
    \/ BasicMaskSecondary
    \/ BasicDetectMaskedPrimary
    \/ ComplexConfigure
    \/ ComplexFirstPass
    \/ ComplexReturn

SpecXT == InitXT /\ [][NextXT]_vars

(***************************************************************************)
(* Vocabulary of the properties.                                           *)
(***************************************************************************)
\* The filter has run.
Classified == pc \in {"print", "done"}

\* The text of a comment: the empty text when the comment is missing.
CommentText(cell) == IF isna(cell) THEN <<>> ELSE cell

\* Two characters are the same letter up to case, or the same character.
CasePairs ==
    UNION { { <<LowerLetters[n], UpperLetters[n]>>,
              <<UpperLetters[n], LowerLetters[n]>> } : n \in DOMAIN LowerLetters }

SameCharIgnoringCase(a, b) == a = b \/ <<a, b>> \in CasePairs

\* t occurs in c as a case-insensitive substring.
OccursIgnoringCase(t, c) ==
    \E off \in 0..(Len(c) - Len(t)) :
        \A j \in 1..Len(t) : SameCharIgnoringCase(c[off + j], t[j])

\* Some rule's trigger occurs in the comment.
SomeTriggerOccurs(cell, rs) ==
    \E k \in DOMAIN rs : OccursIgnoringCase(rs[k].trigger, CommentText(cell))

\* How many times the row (index included) stands in the frame.
Occurrences(row, frame) == Cardinality({ j \in DOMAIN frame : frame[j] = row })

InOutput(row) == Occurrences(row, transfer_df) > 0

RECURSIVE IsSubsequence(_, _)
IsSubsequence(s, t) ==
    IF s = <<>> THEN TRUE
    ELSE IF t = <<>> THEN FALSE
    ELSE IF Head(s) = Head(t) THEN IsSubsequence(Tail(s), Tail(t))
    ELSE IsSubsequence(s, Tail(t))

(***************************************************************************)
(* C1.  The output of the filter is a subsequence of the report it was     *)
(* given: each output row is a row of the report, in the report's order.   *)
(***************************************************************************)
C1_OutputIsSubsequence == Classified => IsSubsequence(transfer_df, df)

C1_Witness ==
    /\ Classified
    /\ Len(transfer_df) = 2
    /\ transfer_df[1] # transfer_df[2]

(***************************************************************************)
(* C2.  A row of the report is in the output exactly when some rule's      *)
(* trigger occurs in its comment as a case-insensitive substring.          *)
(***************************************************************************)
C2_OutputIffTriggerOccurs ==
    Classified =>
        \A i \in DOMAIN df :
            InOutput(df[i]) <=> SomeTriggerOccurs(df[i].Comment, rules)

C2_Witness ==
    /\ Classified
    /\ \E i, j \in DOMAIN df :
          /\ df[i].Comment = Upper(SEND_TO)
          /\ InOutput(df[i])
          /\ df[j].Comment = BareWordsComment
          /\ ~InOutput(df[j])

(***************************************************************************)
(* C3.  Loading a sheet never fails on an empty Comment cell, and a row    *)
(* whose Comment cell is empty is classified, under every rule set, as the *)
(* same row with the comment "" would be.                                  *)
(***************************************************************************)
C3_MissingCommentClassifiedAsEmpty ==
    /\ ("Comment" \in source.columns) => pc # "failed"
    /\ Classified =>
          \A i \in DOMAIN source.rows :
              isna(source.rows[i].Comment) =>
                  (InOutput(df[i]) <=> row_mask([Comment |-> <<>>], rules))

(***************************************************************************)
(* C4.  A sheet without a Comment column ends the run with an error before *)
(* any row is classified.  As claimed the error is InputFormatError; the   *)
(* error of the program is KeyError.                                       *)
(***************************************************************************)
C4_FailsWith(name) ==
    ("Comment" \notin source.columns /\ pc \notin {"read_excel", "astype"}) =>
        /\ pc = "failed"
        /\ error = name
        /\ transfer_df = <<>>
        /\ stdout = <<>>

\* C4 as claimed: the run fails with InputFormatError before any row is classified.
C4_InputFormatErrorBeforeClassification == C4_FailsWith("InputFormatError")

\* C4 as amended: the run fails with KeyError before any row is classified.
C4_KeyErrorBeforeClassification == C4_FailsWith("KeyError")

C4_Witness ==
    /\ "Comment" \notin source.columns
    /\ pc = "failed"
    /\ Len(df) > 0

(***************************************************************************)
(* C5.  Under the default rules, a row whose comment contains              *)
(* "__send to__" in any letter case is matched by the rule "transfer", one *)
(* whose comment contains "__put on tam__" by the rule "tamoxifen", and    *)
(* the row is in the output.                                               *)
(***************************************************************************)
MatchedByRuleNamed(row, name) ==
    \E k \in DOMAIN rules : rules[k].name = name /\ rule_mask(row, rules[k])

C5_DefaultTriggersMatch ==
    (rules = default_rules /\ Classified) =>
        \A i \in DOMAIN df :
            /\ OccursIgnoringCase(SEND_TO, CommentText(df[i].Comment)) =>
                  (MatchedByRuleNamed(df[i], "transfer") /\ InOutput(df[i]))
            /\ OccursIgnoringCase(PUT_ON_TAM, CommentText(df[i].Comment)) =>
                  (MatchedByRuleNamed(df[i], "tamoxifen") /\ InOutput(df[i]))

C5_Witness ==
    /\ rules = default_rules
    /\ Classified
    /\ \E i, j \in DOMAIN df :
          /\ df[i].Comment = EmbeddedComment
          /\ df[j].Comment = Title(PUT_ON_TAM)
          /\ InOutput(df[i])
          /\ InOutput(df[j])

(***************************************************************************)
(* C6.  Under the default rules, a row whose comment is                    *)
(* "Weaned; __SEND TO__ breeding; __put on tam__ next week" stands exactly *)
(* once in the output, and both "transfer" and "tamoxifen" match it.       *)
(***************************************************************************)
C6_BothTriggersOnce ==
    (rules = default_rules /\ Classified) =>
        \A i \in DOMAIN df :
            df[i].Comment = BothTriggersComment =>
                /\ Occurrences(df[i], transfer_df) = 1
                /\ matched_rule_names(df[i], rules) = {"transfer", "tamoxifen"}

C6_Witness ==
    /\ rules = default_rules
    /\ Classified
    /\ \E i \in DOMAIN df :
          /\ df[i].Comment = BothTriggersComment
          /\ Len(transfer_df) = 1

(***************************************************************************)
(* C7.  Under the default rules, no row whose Comment cell is the empty    *)
(* text or is empty is ever in the output, nor in what is printed.         *)
(***************************************************************************)
C7_EmptyCommentNeverOutput ==
    (rules = default_rules /\ Classified) =>
        \A i \in DOMAIN source.rows :
            source.rows[i].Comment \in {<<>>, NaN} =>
                /\ \A j \in DOMAIN transfer_df : transfer_df[j].index # i - 1
                /\ \A p \in DOMAIN stdout :
                      \A j \in DOMAIN stdout[p] : stdout[p][j].index # i - 1

C7_Witness ==
    /\ rules = default_rules
    /\ pc = "done"
    /\ stdout = << <<>> >>
    /\ \E i, j \in DOMAIN source.rows :
          /\ source.rows[i].Comment = <<>>
          /\ source.rows[j].Comment = NaN
          /\ df[j].Comment = NAN_TEXT

(***************************************************************************)
(* C8.  Idempotence: filtering the output again with the same rules gives  *)
(* the output back.                                                        *)
(***************************************************************************)
C8_Idempotent == Classified => classify(transfer_df, rules) = transfer_df

C8_Witness ==
    /\ Classified
    /\ transfer_df # <<>>
    /\ Len(transfer_df) < Len(df)

(***************************************************************************)
(* C9.  matched_rule_names of a row is exactly the set of names of the     *)
(* rules whose trigger occurs in the row's comment as a case-insensitive   *)
(* substring, and the row is in the output exactly when that set is not    *)
(* empty.                                                                  *)
(***************************************************************************)
C9_MatchedRuleNamesExact ==
    Classified =>
        \A i \in DOMAIN df :
            /\ matched_rule_names(df[i], rules) =
                  { rules[k].name :
                      k \in { j \in DOMAIN rules :
                                OccursIgnoringCase(rules[j].trigger,
                                                   CommentText(df[i].Comment)) } }
            /\ InOutput(df[i]) <=> matched_rule_names(df[i], rules) # {}

C9_Witness ==
    /\ Classified
    /\ \E i, j \in DOMAIN df :
          /\ Cardinality(matched_rule_names(df[i], rules)) = 2
          /\ matched_rule_names(df[j], rules) = {}

(***************************************************************************)
(* C10.  The filter has no side effect: the step that classifies leaves    *)
(* the report it was given, the sheet and the rules as they were, prints   *)
(* nothing and raises nothing; its only result is the derived output.      *)
(***************************************************************************)
C10_FilterLeavesInputAlone ==
    [][pc = "filter" =>
          /\ df' = df
          /\ source' = source
          /\ rules' = rules
          /\ stdout' = stdout
          /\ error' = error]_vars

C10_Witness ==
    /\ pc = "print"
    /\ transfer_df # <<>>
    /\ Len(transfer_df) < Len(df)
    /\ \A i \in DOMAIN df : df[i].index = i - 1

(***************************************************************************)
(* C11.  Every output row has the columns of the sheet, and its            *)
(* passthrough cell (AnimalID) is the one its row has in the sheet.        *)
(***************************************************************************)
C11_PassthroughUnchanged ==
    Classified =>
        \A j \in DOMAIN transfer_df :
            /\ DOMAIN transfer_df[j] = source.columns \cup {"index"}
            /\ transfer_df[j].index + 1 \in DOMAIN source.rows
            /\ transfer_df[j].AnimalID =
                  source.rows[transfer_df[j].index + 1].AnimalID

C11_Witness ==
    /\ pc = "done"
    /\ Len(transfer_df) = 2
    /\ transfer_df[1].AnimalID # transfer_df[2].AnimalID
    /\ source.rows[1].AnimalID = "M2"

(***************************************************************************)
(* C12.  A sheet with the Comment column and no rows is classified without *)
(* error and gives an output of no rows.                                   *)
(***************************************************************************)
C12_EmptyReportEmptyOutput ==
    ("Comment" \in source.columns /\ source.rows = <<>>) =>
        /\ pc # "failed"
        /\ error = "none"
        /\ Classified => transfer_df = <<>>
        /\ pc = "done" => stdout = << <<>> >>

C12_Witness ==
    /\ "Comment" \in source.columns
    /\ source.rows = <<>>
    /\ pc = "done"

(***************************************************************************)
(* C13.  No deduplication: the output is as long as the number of rows of  *)
(* the report that match, and of k matching rows with the same cells the   *)
(* output holds k.                                                         *)
(***************************************************************************)
SameCells(r, q) == r.AnimalID = q.AnimalID /\ r.Comment = q.Comment

CopiesOf(row, frame) ==
    Cardinality({ j \in DOMAIN frame : SameCells(frame[j], row) })

C13_NoDeduplication ==
    Classified =>
        /\ Len(transfer_df) =
              Cardinality({ i \in DOMAIN df :
                              SomeTriggerOccurs(df[i].Comment, rules) })
        /\ \A i \in DOMAIN df :
              SomeTriggerOccurs(df[i].Comment, rules) =>
                  CopiesOf(df[i], transfer_df) = CopiesOf(df[i], df)

C13_Witness ==
    /\ Classified
    /\ Len(df) = 2
    /\ SameCells(df[1], df[2])
    /\ Len(transfer_df) = 2

(***************************************************************************)
(* C14.  No word boundary: a comment in which a trigger stands directly    *)
(* between two letters still matches, and its row is in the output.        *)
(***************************************************************************)
IsLetter(c) == IsIn(LowerLetters, c) \/ IsIn(UpperLetters, c)

\* t occurs in c, ignoring case, with a letter right before and right after.
OccursBetweenLetters(t, c) ==
    \E off \in 1..(Len(c) - Len(t) - 1) :
        /\ IsLetter(c[off])
        /\ IsLetter(c[off + Len(t) + 1])
        /\ \A j \in 1..Len(t) : SameCharIgnoringCase(c[off + j], t[j])

C14_EmbeddedTriggerMatches ==
    Classified =>
        \A i \in DOMAIN df :
            \A k \in DOMAIN rules :
                OccursBetweenLetters(rules[k].trigger, CommentText(df[i].Comment))
                    => (rule_mask(df[i], rules[k]) /\ InOutput(df[i]))

C14_Witness ==
    /\ Classified
    /\ rules = default_rules
    /\ \E i \in DOMAIN df :
          /\ df[i].Comment = EmbeddedComment
          /\ OccursBetweenLetters(SEND_TO, df[i].Comment)
          /\ InOutput(df[i])

(***************************************************************************)
(* C15.  No partial output: a run that fails has printed nothing, and a    *)
(* run that has printed has printed the selection of the whole report and  *)
(* does not fail afterwards.                                               *)
(***************************************************************************)
C15_AllOrNothing ==
    /\ (pc = "failed" \/ error # "none") => stdout = <<>>
    /\ stdout # <<>> =>
          /\ pc = "done"
          /\ error = "none"
          /\ stdout = <<transfer_df>>
          /\ \A i \in DOMAIN df :
                SomeTriggerOccurs(df[i].Comment, rules) => InOutput(df[i])

C15_Witness ==
    /\ pc = "failed"
    /\ Len(df) = 2
    /\ stdout = <<>>

(***************************************************************************)
(* C16.  Rows are classified independently: the output for a report is     *)
(* the output for any first part of it followed by the output for the      *)
(* rest.                                                                   *)
(***************************************************************************)
C16_RowsIndependent ==
    Classified =>
        \A n \in 0..Len(df) :
            transfer_df =
                classify(SubSeq(df, 1, n), rules)
                    \o classify(SubSeq(df, n + 1, Len(df)), rules)

C16_Witness ==
    /\ Classified
    /\ Len(df) = 2
    /\ Len(transfer_df) = 2

(***************************************************************************)
(* C17.  The output does not depend on the order of the rules: every       *)
(* permutation of the rule set selects the same rows in the same order.    *)
(***************************************************************************)
PermutationsOf(rs) ==
    { [i \in DOMAIN rs |-> rs[p[i]]] :
        p \in { q \in [DOMAIN rs -> DOMAIN rs] :
                  \A a, b \in DOMAIN rs : a # b => q[a] # q[b] } }

C17_RuleOrderIrrelevant ==
    Classified =>
        \A rs \in PermutationsOf(rules) : classify(df, rs) = transfer_df

C17_Witness ==
    /\ Classified
    /\ Len(rules) = 2
    /\ \E i, j \in DOMAIN df :
          /\ rule_mask(df[i], rules[1]) /\ ~rule_mask(df[i], rules[2])
          /\ rule_mask(df[j], rules[2]) /\ ~rule_mask(df[j], rules[1])

(***************************************************************************)
(* Vocabulary of the properties of the imaging scripts.                    *)
(***************************************************************************)
\* The call has run a detection or written to the scene or the dataset, or
\* has exported statistics.
HostModified ==
    \/ host.detections > 0
    \/ host.scene # <<>>
    \/ host.channel_writes # <<>>
    \/ host.exported

GuardOrder == <<"connection", "dataset", "dialog">>

(***************************************************************************)
(* C18.  In both scripts the function detects no surface, writes nothing   *)
(* to the scene or the dataset and exports nothing unless the connection   *)
(* was obtained, then a dataset was loaded, then the user confirmed the    *)
(* dialog.  Without a connection or a dataset, or on a cancelled dialog,   *)
(* it returns at once ("Canceled by user" on cancel) and the application   *)
(* is as it was.                                                           *)
(***************************************************************************)
C18_GuardsBeforeHostWork ==
    (script \in Scripts) =>
        /\ checks = SubSeq(GuardOrder, 1, Len(checks))
        /\ HostModified =>
              (host.app /\ host.dataset /\ host.confirm /\ checks = GuardOrder)
        /\ ~host.app => (xpc \in {"get_app", "returned"} /\ ~HostModified)
        /\ ~host.dataset =>
              (xpc \in {"get_app", "get_dataset", "returned"} /\ ~HostModified)
        /\ ~host.confirm =>
              /\ xpc \in {"get_app", "get_dataset", "build_dialog", "show", "returned"}
              /\ ~HostModified
        /\ (xpc = "returned" /\ ~(host.app /\ host.dataset)) =>
              (ret = "None" /\ Len(xt_out) = 1)
        /\ (xpc = "returned" /\ host.app /\ host.dataset /\ ~host.confirm) =>
              ret = "Canceled by user"

C18_Witness ==
    /\ script = "complex"
    /\ xpc = "returned"
    /\ ret = "Canceled by user"
    /\ checks = <<"connection", "dataset">>
    /\ ~HostModified

(***************************************************************************)
(* C19.  In the two masking loops of the basic script the indices given to *)
(* masked channels are vSizeC, vSizeC + 1, ... in this order without gaps, *)
(* first in primary_masked_indices, then in secondary_masked_indices; the  *)
(* two lists share no index, an index is used only when a masked channel   *)
(* was created, and next_channel_index is vSizeC plus the number of masked *)
(* channels created so far.                                                *)
(***************************************************************************)
MaskingStarted ==
    /\ script = "basic"
    /\ \/ xpc \in {"mask_primary", "mask_secondary"}
       \/ xpc = "returned" /\ Len(host.scene) >= 2

ElementsOf(seq) == { seq[i] : i \in DOMAIN seq }

C19_MaskedIndicesContiguous ==
    MaskingStarted =>
        LET assigned == primary_masked_indices \o secondary_masked_indices IN
        /\ \A i \in DOMAIN assigned : assigned[i] = vSizeC + i - 1
        /\ Len(assigned) = masks_created
        /\ next_channel_index = vSizeC + masks_created
        /\ ElementsOf(primary_masked_indices)
              \cap ElementsOf(secondary_masked_indices) = {}
        /\ { w.index : w \in ElementsOf(host.channel_writes) } = ElementsOf(assigned)

C19_Witness ==
    /\ script = "basic"
    /\ xpc = "returned"
    /\ vSizeC = 2
    /\ Len(primary_masked_indices) = 1
    /\ Len(secondary_masked_indices) = 1
    /\ host.channel_writes[1].of = 1

============================================================================
